---- MODULE Spec2Model ----
(***************************************************************************)
(* Model of the simulation job coordinator of backend/app/services/        *)
(* simulation.py: the job registry, the per-job asyncio task running the   *)
(* dialogue engine, the proactive (wait_for) and reactive (get_job) timeout *)
(* mechanisms and shutdown.                                                 *)
(*                                                                          *)
(* Scheduling is asyncio's: one coroutine runs at a time (cpu) and keeps    *)
(* running until it suspends.  The suspension points are the generation and *)
(* summary calls of a job task and shutdown's "await task".  A coroutine    *)
(* that enters "async with self._lock" takes the lock in one step and runs  *)
(* the locked block, releases and continues in the next one, so that the    *)
(* lock is visible as held in the state in between.                         *)
(***************************************************************************)
EXTENDS Integers, Sequences, FiniteSets, TLC

\* ---------------------------------------------------------------- bounds
MaxJobs == 2
MaxTurns == 1
MaxTimeout == 1
\* Turns of the request in the behaviours with a single job.
MaxTurnsOneJob == 2
\* Elapsed times are told apart up to MaxTimeout + 1 (strictly over budget).
MaxClock == MaxTimeout + 1

\* ------------------------------------------------------- optional values
None == <<>>
Some(x) == <<x>>
Val(o) == o[1]

\* ------------------------------------------------------------ data model
JobIds == 1..MaxJobs

PENDING == "pending"
RUNNING == "running"
COMPLETED == "completed"
FAILED == "failed"

\* Participant lists of the requests that are submitted (roles of the tests).
ParticipantLists == {<<"Engineer", "Strategist">>}

\* Scenario texts of the requests (SimulationRequest.context).
Contexts == {None}

SimulationRequest ==
    [turns : 1..MaxTurns, context : Contexts, participants : ParticipantLists]

\* The requests of the behaviours with a single job: more turns, a list of
\* three participants, with and without a scenario text.
OneJobRequests ==
    [turns : 1..MaxTurnsOneJob,
     context : {None, Some("Discuss battery recycling best practices.")},
     participants : ParticipantLists \cup {<<"Engineer", "Strategist", "Scientist">>}]

\* Behaviours of the generation capability handed to start_simulation:
\*   ok       - every call returns a reply; honours cancellation
\*   failing  - every call raises; honours cancellation
\*   slow     - a call outlasts the budgets: it does not finish before the
\*              overall deadline of its job; honours cancellation
\*   stubborn - ignores cancellation requests and later returns or raises
\*   strict   - generate(prompt) without the keyword "options", as declared
\*              by OllamaClient and by the stubs of the tests: the call of
\*              line 197 raises TypeError
ClientKinds == {"ok", "failing", "slow", "stubborn", "strict"}

HonoursCancel(client) == client /= "stubborn"

\* Does generate of this client take the keyword "options" of line 197?
AcceptsOptions(client) == client /= "strict"

\* The functions bound to the name generate_summary of the module:
\*   memory     - generate_summary(messages, ollama_client) of memory.py, and
\*                the replacements of the tests with the same parameters: the
\*                keyword "max_tokens" of line 220 raises TypeError
\*   forwarding - a replacement that takes the keyword and awaits the
\*                generation capability
SummaryBindings == {"memory", "forwarding"}

AcceptsMaxTokens(binding) == binding = "forwarding"

\* Error texts.  role and seconds are "" and 0 where the text has none.
ErrorText(msg, role, seconds) == [msg |-> msg, role |-> role, seconds |-> seconds]

CancelledMessage == ErrorText("Simulation was cancelled.", "", 0)

RuntimeExceededMessage(seconds) ==
    ErrorText("Simulation exceeded the maximum runtime of {seconds} seconds.", "", seconds)

ReplyFailedMessage(role) ==
    ErrorText("Failed to generate a reply for role '{role}'.", role, 0)

ReplyTimedOutMessage(role) ==
    ErrorText("Timed out waiting for a reply from participant '{role}'.", role, 0)

SummaryFailedMessage == ErrorText("Failed to summarize simulated conversation.", "", 0)

SummaryTimedOutMessage ==
    ErrorText("Timed out while generating the simulation summary.", "", 0)

\* str(exc) of the TypeError of a call with a keyword the callee does not
\* declare.
UnexpectedKeywordMessage(callee, keyword) ==
    ErrorText(callee \o "() got an unexpected keyword argument '" \o keyword \o "'",
              "", 0)

ChatMessage(role, content) == [role |-> role, content |-> content]

\* GraphNode and GraphEdge of app/models/chat.py.
GraphNode(id, label, type, metadata) ==
    [id |-> id, label |-> label, type |-> type, metadata |-> metadata]

GraphEdge(source, target, relation, metadata) ==
    [source |-> source, target |-> target, relation |-> relation, metadata |-> metadata]

\* The identifiers of the nodes: f"sim-message-{index}", and a prefix with a
\* uuid4() for the session and the knowledge node; the two random suffixes
\* are kept as 0, the prefixes tell the identifiers apart.
MessageNodeId(index) == [prefix |-> "sim-message", suffix |-> index]
SessionNodeId == [prefix |-> "sim-session", suffix |-> 0]
KnowledgeNodeId == [prefix |-> "sim-knowledge", suffix |-> 0]

\* previous_message_id set to the identifier of the message under way before
\* its edges are added.
PreviousMessageIdSelf(index) == MessageNodeId(index)

\* previous_message_id when the loop is at position index (counted from 0),
\* or past the last message: the identifier of the message before, line 113.
PreviousMessageId(index) == MessageNodeId(index - 1)

\* _build_simulation_graph.  The wall-clock entries of the metadata
\* ("generated_at", "timestamp") are left out.
BuildSimulationGraph(request, messages, summary) ==
    LET context == IF request.context = None THEN "" ELSE Val(request.context)
        count == Len(messages)
        session_node ==
            GraphNode(SessionNodeId, "SimulationSession", "SimulationSession",
                      [context |-> context, turns |-> request.turns,
                       participants |-> request.participants])
        message_nodes ==
            [i \in 1..count |->
                GraphNode(MessageNodeId(i - 1), messages[i].role, "SimulationMessage",
                          [role |-> messages[i].role, content |-> messages[i].content,
                           sequence |-> i - 1])]
        knowledge_node ==
            GraphNode(KnowledgeNodeId, "SimulationKnowledge", "SimulationKnowledge",
                      [summary |-> summary, context |-> context])
        MessageEdges(index) ==
            << GraphEdge(SessionNodeId, MessageNodeId(index), "HAS_MESSAGE",
                         [order |-> index]) >>
            \o (IF index > 0
                THEN << GraphEdge(PreviousMessageId(index), MessageNodeId(index), "NEXT",
                                  [sequence |-> index]) >>
                ELSE <<>>)
        edges_of_loop[n \in 0..count] ==
            IF n = 0 THEN <<>> ELSE edges_of_loop[n - 1] \o MessageEdges(n - 1)
    IN [nodes |-> <<session_node>> \o message_nodes \o <<knowledge_node>>,
        edges |-> edges_of_loop[count]
                  \o << GraphEdge(SessionNodeId, KnowledgeNodeId, "YIELDED", <<>>) >>
                  \o (IF count > 0
                      THEN << GraphEdge(PreviousMessageId(count), KnowledgeNodeId,
                                        "CONTRIBUTED_TO", <<>>) >>
                      ELSE <<>>)]

\* SimulationResponse(messages=transcript, summary=summary, graph=graph).
SimulationResponse(messages, summary, graph) ==
    [messages |-> messages, summary |-> summary, graph |-> graph]

\* _SimulationJobState(job_id, request): the defaults of the dataclass.
NewJobState(job_id, request) ==
    [job_id |-> job_id, request |-> request, status |-> PENDING,
     result |-> None, error |-> None, task |-> None, started_at |-> None]

\* An asyncio task of _execute_job.  pc is the place where the coroutine is:
\*   absent      no task was created for this job id
\*   created     created by create_task, first step not yet run
\*   enter       holds the lock of line 320
\*   gen         suspended in the generation call of participant idx of turn
\*   summary     suspended in the summary call
\*   h_cancelled holds the lock of line 338
\*   h_timeout   holds the lock of line 347
\*   h_exception holds the lock of line 360
\*   h_complete  holds the lock of line 368
\*   done        finished
\* cancel: task.cancel() was requested and not yet delivered.
\* timer:  the deadline of asyncio.wait_for (none, armed, fired, spent); when
\*         is the time left until an armed timer is due.
\* outcome: how a finished task ended.
\* prompt: the prompt of the last generation call; calls and summaries count
\*         the generation calls and the summary calls the engine has made.
NoTask ==
    [pc |-> "absent", client |-> "ok", turn |-> 0, idx |-> 0,
     transcript |-> <<>>, cancel |-> FALSE, timer |-> "none", when |-> 0,
     exc |-> None, summary |-> None, outcome |-> "",
     prompt |-> None, calls |-> 0, summaries |-> 0]

\* The coroutine that is running now.
Idle == [kind |-> "idle", pc |-> "", job |-> 0, args |-> None, ret |-> None]

Frame(kind, pc, job, args, ret) ==
    [kind |-> kind, pc |-> pc, job |-> job, args |-> args, ret |-> ret]

Returned(value) == [raised |-> "", value |-> Some(value)]
Raised(name) == [raised |-> name, value |-> None]

VARIABLES
    jobs,                         \* self._jobs: job id -> _SimulationJobState
    tasks,                        \* the asyncio tasks, by job id
    lock,                         \* self._lock: Free, or the holder
    cpu,                          \* the running coroutine, or Idle
    shutdown,                     \* the shutdown() coroutine: its place, its
                                  \* list "tasks", the loop position i and
                                  \* the tasks it has cancelled
    timeout_seconds,              \* self._timeout_seconds
    generation_timeout_seconds,   \* self._generation_timeout_seconds
    generate_summary              \* the function bound to the module's name
                                  \* generate_summary

vars == <<jobs, tasks, lock, cpu, shutdown, timeout_seconds, generation_timeout_seconds, generate_summary>>

\* self._lock is Free or held by a coroutine.
Free == [kind |-> "free", job |-> 0]
Holder(kind, job) == [kind |-> kind, job |-> job]

\* ------------------------------------------------------------ constructor
\* The constructor that stores the budget as it is given.
KeepBudget(value) == value

\* SimulationCoordinator.__init__: a budget that is None, 0 or negative is
\* stored as None.
NormaliseBudget(value) ==
    IF value /= None /\ Val(value) > 0 THEN value ELSE None

TimeoutArgs == {None} \cup {Some(t) : t \in -1..MaxTimeout}
GenerationTimeoutArgs == {None, Some(1)}

Init ==
    /\ jobs = <<>>
    /\ tasks = [j \in JobIds |-> NoTask]
    /\ lock = Free
    /\ cpu = Idle
    /\ shutdown = [pc |-> "idle", tasks |-> <<>>, i |-> 0, cancelled |-> {},
                   raised |-> ""]
    /\ \E t \in TimeoutArgs : timeout_seconds = NormaliseBudget(t)
    /\ \E g \in GenerationTimeoutArgs : generation_timeout_seconds = NormaliseBudget(g)
    /\ generate_summary \in SummaryBindings

\* ------------------------------------------------------------------ time
\* Timestamps are kept relative to the present: the loop clock reads 0 and
\* a recorded started_at is 0 or negative.  A tick ages every recorded
\* timestamp; ages beyond MaxClock are not told apart.
LoopTime == 0

Age(started_at) ==
    IF started_at = None THEN None
    ELSE IF LoopTime - Val(started_at) < MaxClock THEN Some(Val(started_at) - 1)
    ELSE started_at

AgeTimer(task) ==
    IF task.timer = "armed" /\ task.when > LoopTime - 1
    THEN [task EXCEPT !.when = @ - 1]
    ELSE task

Tick ==
    /\ cpu = Idle
    /\ \/ \E j \in DOMAIN jobs : Age(jobs[j].started_at) /= jobs[j].started_at
       \/ \E j \in JobIds : AgeTimer(tasks[j]) /= tasks[j]
    /\ jobs' = [j \in DOMAIN jobs |-> [jobs[j] EXCEPT !.started_at = Age(@)]]
    /\ tasks' = [j \in JobIds |-> AgeTimer(tasks[j])]
    /\ UNCHANGED <<lock, cpu, shutdown, timeout_seconds, generation_timeout_seconds, generate_summary>>

\* --------------------------------------------------------------- snapshot
\* _snapshot_job: the task handle and the start time are not exposed.
SnapshotJob(state) ==
    [job_id |-> state.job_id, status |-> state.status,
     result |-> state.result, error |-> state.error]

\* ------------------------------------------------------------ task handle
TaskDone(j) == tasks[j].pc = "done"

\* task.cancel(): the request is delivered at the task's next step.
CancelTask(ts, j) == [ts EXCEPT ![j].cancel = TRUE]

\* ---------------------------------------------------------- timeout guard
\* The check without its status and start-time tests: a job without a start
\* time counts as over budget.
TimeoutAppliesAnyStatus(state) ==
    /\ timeout_seconds /= None
    /\ state.started_at /= None => LoopTime - Val(state.started_at) > Val(timeout_seconds)

\* The check with the comparison of line 410 as "less than": a job whose
\* elapsed time equals the budget is failed.
TimeoutAppliesAtBudget(state) ==
    /\ timeout_seconds /= None
    /\ state.status = RUNNING
    /\ state.started_at /= None
    /\ LoopTime - Val(state.started_at) >= Val(timeout_seconds)

\* _apply_timeout_if_needed, lines 402-411: does the check fail the job?
TimeoutApplies(state) ==
    /\ timeout_seconds /= None
    /\ state.status = RUNNING
    /\ state.started_at /= None
    /\ LoopTime - Val(state.started_at) > Val(timeout_seconds)

\* The guard with the test of task.done() inverted.
GuardCancelsDoneTask(state) ==
    /\ TimeoutApplies(state)
    /\ state.task /= None
    /\ TaskDone(Val(state.task))

\* lines 419-421: the guard cancels the task that is bound and not done.
GuardCancels(state) ==
    /\ TimeoutApplies(state)
    /\ state.task /= None
    /\ ~TaskDone(Val(state.task))

\* The check that records the text and leaves the job Running with its
\* start time.
ApplyTimeoutKeepsRunning(state) ==
    IF ~TimeoutApplies(state) THEN state
    ELSE [state EXCEPT !.error = Some(RuntimeExceededMessage(Val(timeout_seconds)))]

\* The check with a missing budget taken as a budget of 0.
ApplyTimeoutNoneAsZero(state) ==
    IF state.status /= RUNNING \/ state.started_at = None
          \/ LoopTime - Val(state.started_at)
                <= (IF timeout_seconds = None THEN 0 ELSE Val(timeout_seconds))
    THEN state
    ELSE [state EXCEPT
            !.status = FAILED,
            !.error = Some(RuntimeExceededMessage(
                         IF timeout_seconds = None THEN 0 ELSE Val(timeout_seconds))),
            !.started_at = None]

\* lines 413-424: the job state after the check.
ApplyTimeoutIfNeeded(state) ==
    IF ~TimeoutApplies(state) THEN state
    ELSE [state EXCEPT
            !.status = FAILED,
            !.error = Some(RuntimeExceededMessage(Val(timeout_seconds))),
            !.started_at = None,
            !.task = IF @ /= None /\ TaskDone(Val(@)) THEN None ELSE @]

\* ---------------------------------------------------------------- get_job
\* The locked block of get_job (lines 309-313), also run by start_simulation.
\* The check applied to every job of the registry on each call.
GetJobJobsSweep(job_id) ==
    [j \in DOMAIN jobs |-> ApplyTimeoutIfNeeded(jobs[j])]

GetJobJobs(job_id) ==
    IF job_id \in DOMAIN jobs
    THEN [jobs EXCEPT ![job_id] = ApplyTimeoutIfNeeded(@)]
    ELSE jobs

\* lines 419-422.  The done callback added at line 422,
\* _silence_task_result (lines 426-431), retrieves the outcome of the task
\* inside suppress(CancelledError, Exception) once the task has finished: it
\* raises nothing and assigns nothing, so it takes no part in the state.
GetJobTasks(job_id) ==
    IF job_id \in DOMAIN jobs /\ GuardCancels(jobs[job_id])
    THEN CancelTask(tasks, Val(jobs[job_id].task))
    ELSE tasks

\* The lookup with a default: an unknown identifier gets the snapshot of a
\* fresh Pending job.
GetJobResultWithDefault(job_id) ==
    IF job_id \in DOMAIN jobs
    THEN Returned(SnapshotJob(ApplyTimeoutIfNeeded(jobs[job_id])))
    ELSE Returned(SnapshotJob(NewJobState(job_id, CHOOSE r \in SimulationRequest : TRUE)))

\* The lookup that retrieves the outcome of the task the check cancels or
\* has cancelled, as awaiting the task would.
GetJobResultSurfaces(job_id) ==
    IF job_id \notin DOMAIN jobs THEN Raised("KeyError")
    ELSE IF GuardCancels(jobs[job_id]) \/ tasks[job_id].outcome = "cancelled"
    THEN Raised("CancelledError")
    ELSE Returned(SnapshotJob(ApplyTimeoutIfNeeded(jobs[job_id])))

GetJobResult(job_id) ==
    IF job_id \in DOMAIN jobs
    THEN Returned(SnapshotJob(ApplyTimeoutIfNeeded(jobs[job_id])))
    ELSE Raised("KeyError")

\* get_job is called and takes the lock (line 308).
GetJobCall(job_id) ==
    /\ cpu = Idle
    /\ lock = Free
    /\ lock' = Holder("get", job_id)
    /\ cpu' = Frame("get", "locked", job_id, None, None)
    /\ UNCHANGED <<jobs, tasks, shutdown, timeout_seconds, generation_timeout_seconds, generate_summary>>

\* lines 309-313, and the release of the lock.
GetJobBody ==
    /\ cpu.kind = "get"
    /\ cpu.pc = "locked"
    /\ jobs' = GetJobJobs(cpu.job)
    /\ tasks' = GetJobTasks(cpu.job)
    /\ lock' = Free
    /\ cpu' = [cpu EXCEPT !.pc = "returned", !.ret = Some(GetJobResult(cpu.job))]
    /\ UNCHANGED <<shutdown, timeout_seconds, generation_timeout_seconds, generate_summary>>

\* The caller of get_job or start_simulation has its result.
CallReturn ==
    /\ cpu.kind \in {"get", "start"}
    /\ cpu.pc = "returned"
    /\ cpu' = Idle
    /\ UNCHANGED <<jobs, tasks, lock, shutdown, timeout_seconds, generation_timeout_seconds, generate_summary>>

\* ---------------------------------------------------------------- prompts
\* The conversation as it stood when the current round began: the replies of
\* the round under way are left out.
RenderEarlierRounds(request, messages) ==
    LET n == Len(request.participants)
        earlier == SubSeq(messages, 1, (Len(messages) \div n) * n)
        history_lines ==
            (IF request.context /= None
             THEN << <<"Scenario", Val(request.context)>> >> ELSE <<>>)
            \o [i \in 1..Len(earlier) |-> <<earlier[i].role, earlier[i].content>>]
    IN IF history_lines /= <<>> THEN history_lines
       ELSE << <<"", "(no previous dialogue)">> >>

\* _PromptContext.render_conversation: the scenario line, then one line per
\* message of the transcript; a placeholder when there is no line.
RenderConversation(request, messages) ==
    LET history_lines ==
            (IF request.context /= None
             THEN << <<"Scenario", Val(request.context)>> >> ELSE <<>>)
            \o [i \in 1..Len(messages) |-> <<messages[i].role, messages[i].content>>]
    IN IF history_lines /= <<>> THEN history_lines
       ELSE << <<"", "(no previous dialogue)">> >>

\* _build_prompt: the participant who is to speak and the conversation so far.
BuildPrompt(request, messages, participant) ==
    [role |-> participant, conversation |-> RenderConversation(request, messages)]

\* ------------------------------------------------------- start_simulation
\* An identifier generator that repeats: the identifier of a registered job
\* once there is one.
RepeatedJobId ==
    IF jobs = <<>> THEN Cardinality(DOMAIN jobs) + 1
    ELSE CHOOSE j \in DOMAIN jobs : TRUE

\* uuid4: an identifier that no job has.
FreshJobId == Cardinality(DOMAIN jobs) + 1

\* lines 298-300: the state is built and the lock taken.
StartSimulationCall(request, client) ==
    /\ cpu = Idle
    /\ lock = Free
    /\ FreshJobId \in JobIds
    /\ lock' = Holder("start", FreshJobId)
    /\ cpu' = Frame("start", "locked", FreshJobId,
                    Some([request |-> request, client |-> client]), None)
    /\ UNCHANGED <<jobs, tasks, shutdown, timeout_seconds, generation_timeout_seconds, generate_summary>>

\* line 301, and the release of the lock.
StartSimulationRegister ==
    /\ cpu.kind = "start"
    /\ cpu.pc = "locked"
    /\ jobs' = [j \in DOMAIN jobs \cup {cpu.job} |->
                  IF j = cpu.job THEN NewJobState(cpu.job, Val(cpu.args).request)
                  ELSE jobs[j]]
    /\ lock' = Free
    /\ cpu' = [cpu EXCEPT !.pc = "registered"]
    /\ UNCHANGED <<tasks, shutdown, timeout_seconds, generation_timeout_seconds, generate_summary>>

\* The task started eagerly: create_task runs _execute_job up to its first
\* suspension before start_simulation goes on.
StartSimulationSpawnEager ==
    /\ cpu.kind = "start"
    /\ cpu.pc = "registered"
    /\ lock = Free
    /\ tasks' = [tasks EXCEPT ![cpu.job] =
                    [NoTask EXCEPT
                       !.pc = "gen", !.client = Val(cpu.args).client,
                       !.turn = 1, !.idx = 1, !.calls = 1,
                       !.prompt = Some(BuildPrompt(jobs[cpu.job].request, <<>>,
                                          jobs[cpu.job].request.participants[1])),
                       !.timer = IF timeout_seconds /= None THEN "armed" ELSE "none",
                       !.when = IF timeout_seconds /= None
                                THEN LoopTime + Val(timeout_seconds) ELSE 0]]
    /\ jobs' = [jobs EXCEPT ![cpu.job].task = Some(cpu.job),
                            ![cpu.job].status = RUNNING,
                            ![cpu.job].started_at = Some(LoopTime)]
    /\ lock' = Holder("start", cpu.job)
    /\ cpu' = [cpu EXCEPT !.pc = "get_locked"]
    /\ UNCHANGED <<shutdown, timeout_seconds, generation_timeout_seconds, generate_summary>>

\* line 302: the task is created and bound; line 303 enters get_job, which
\* takes the lock.
StartSimulationSpawn ==
    /\ cpu.kind = "start"
    /\ cpu.pc = "registered"
    /\ lock = Free
    /\ tasks' = [tasks EXCEPT ![cpu.job] =
                    [NoTask EXCEPT !.pc = "created", !.client = Val(cpu.args).client]]
    /\ jobs' = [jobs EXCEPT ![cpu.job].task = Some(cpu.job)]
    /\ lock' = Holder("start", cpu.job)
    /\ cpu' = [cpu EXCEPT !.pc = "get_locked"]
    /\ UNCHANGED <<shutdown, timeout_seconds, generation_timeout_seconds, generate_summary>>

\* line 303: the locked block of get_job for the new job.
StartSimulationGet ==
    /\ cpu.kind = "start"
    /\ cpu.pc = "get_locked"
    /\ jobs' = GetJobJobs(cpu.job)
    /\ tasks' = GetJobTasks(cpu.job)
    /\ lock' = Free
    /\ cpu' = [cpu EXCEPT !.pc = "returned", !.ret = Some(GetJobResult(cpu.job))]
    /\ UNCHANGED <<shutdown, timeout_seconds, generation_timeout_seconds, generate_summary>>

\* ---------------------------------------------------------- _execute_job
Executing(j) == cpu.kind = "task" /\ cpu.job = j

\* Generation calls serialised over the jobs: a call is resumed only when no
\* job submitted earlier waits in a call.
SuspendedInTurn(j) ==
    /\ cpu = Idle
    /\ tasks[j].pc \in {"gen", "summary"}
    /\ \A k \in 1..(j - 1) : tasks[k].pc \notin {"gen", "summary"}

\* The event loop resumes a suspended task j: nothing else is running.
Suspended(j) == cpu = Idle /\ tasks[j].pc \in {"gen", "summary"}

\* No cancellation and no deadline is waiting to be delivered to task j.
NoSignal(j) == ~tasks[j].cancel /\ tasks[j].timer /= "fired"

\* A task cancelled before its first step never runs its coroutine: the
\* CancelledError is thrown into the unstarted coroutine and the task ends
\* cancelled, without a single line of _execute_job being run.
TaskCancelledBeforeStart(j) ==
    /\ cpu = Idle
    /\ tasks[j].pc = "created"
    /\ tasks[j].cancel
    /\ tasks' = [tasks EXCEPT ![j].pc = "done", ![j].cancel = FALSE,
                              ![j].outcome = "cancelled-unstarted"]
    /\ UNCHANGED <<jobs, lock, cpu, shutdown, timeout_seconds, generation_timeout_seconds, generate_summary>>

\* First step of the task: line 320 takes the lock.
TaskStart(j) ==
    /\ cpu = Idle
    /\ tasks[j].pc = "created"
    /\ ~tasks[j].cancel
    /\ lock = Free
    /\ lock' = Holder("task", j)
    /\ cpu' = Frame("task", "", j, None, None)
    /\ tasks' = [tasks EXCEPT ![j].pc = "enter"]
    /\ UNCHANGED <<jobs, shutdown, timeout_seconds, generation_timeout_seconds, generate_summary>>

\* The inner loop stopping one participant short of the list.
NextPositionSkipsLast(request, turn, idx) ==
    IF idx + 1 < Len(request.participants)
    THEN [pc |-> "gen", turn |-> turn, idx |-> idx + 1]
    ELSE IF turn < request.turns
    THEN [pc |-> "gen", turn |-> turn + 1, idx |-> 1]
    ELSE [pc |-> "summary", turn |-> turn, idx |-> idx]

\* The loops with the outer one left out: one round whatever request.turns.
NextPositionSingleRound(request, turn, idx) ==
    IF idx < Len(request.participants)
    THEN [pc |-> "gen", turn |-> turn, idx |-> idx + 1]
    ELSE [pc |-> "summary", turn |-> turn, idx |-> idx]

\* run_simulation, lines 189-190: the loop position after the reply of
\* participant idx of turn was appended; "summary" when the rounds are over.
NextPosition(request, turn, idx) ==
    IF idx < Len(request.participants)
    THEN [pc |-> "gen", turn |-> turn, idx |-> idx + 1]
    ELSE IF turn < request.turns
    THEN [pc |-> "gen", turn |-> turn + 1, idx |-> 1]
    ELSE [pc |-> "summary", turn |-> turn, idx |-> idx]

\* lines 321-336 and 186-199: the job becomes Running, the lock is released,
\* wait_for arms its deadline when a budget is configured and the engine
\* suspends in its first generation call.  A capability that does not take
\* the keyword "options" raises TypeError at line 197: the exception leaves
\* the engine at once and line 360 takes the lock.
EnterAndCall(j, released) ==
    /\ Executing(j)
    /\ tasks[j].pc = "enter"
    /\ jobs' = [jobs EXCEPT ![j].status = RUNNING, ![j].started_at = Some(LoopTime)]
    /\ IF AcceptsOptions(tasks[j].client)
       THEN /\ lock' = released
            /\ tasks' = [tasks EXCEPT
                   ![j].pc = "gen", ![j].turn = 1, ![j].idx = 1,
                   ![j].transcript = <<>>,
                   ![j].prompt = Some(BuildPrompt(jobs[j].request, <<>>,
                                                  jobs[j].request.participants[1])),
                   ![j].calls = 1,
                   ![j].timer = IF timeout_seconds /= None THEN "armed" ELSE "none",
                   ![j].when = IF timeout_seconds /= None
                               THEN LoopTime + Val(timeout_seconds) ELSE 0]
            /\ cpu' = Idle
       ELSE /\ lock' = Holder("task", j)
            /\ tasks' = [tasks EXCEPT
                   ![j].pc = "h_exception", ![j].turn = 1, ![j].idx = 1,
                   ![j].exc = Some(UnexpectedKeywordMessage("generate", "options"))]
            /\ cpu' = cpu
    /\ UNCHANGED <<shutdown, timeout_seconds, generation_timeout_seconds, generate_summary>>

\* The engine run inside the block of line 320, the lock kept during the
\* generation call.
TaskEnterInsideLock(j) == EnterAndCall(j, lock)

\* The block of line 320 ends at line 322: the lock is released before the
\* engine runs.
TaskEnter(j) == EnterAndCall(j, Free)

\* The participant chosen by the round instead of the position in the list.
SpeakerOfRound(j) == jobs[j].request.participants[tasks[j].turn]

\* The participant whose reply task j waits for.
Speaker(j) == jobs[j].request.participants[tasks[j].idx]

\* A call of this client can finish now.  A slow call outlasts the overall
\* budget, so it never finishes while the deadline of wait_for is pending.
CallFinishes(j) ==
    /\ NoSignal(j)
    /\ tasks[j].client = "slow" => tasks[j].timer /= "armed"

CallReturns(j) == CallFinishes(j) /\ tasks[j].client \in {"ok", "slow", "stubborn"}
CallRaises(j) == CallFinishes(j) /\ tasks[j].client \in {"failing", "stubborn"}
\* The per-call budget of _await_with_timeout expires before the call ends.
CallTimesOut(j) ==
    /\ NoSignal(j)
    /\ generation_timeout_seconds /= None
    /\ tasks[j].client = "slow"

\* Stub replies "response-<n>" in call order.
Reply(j) == Len(tasks[j].transcript) + 1

\* lines 199-215: the reply arrives and is appended; the engine suspends in
\* the next generation call or, after the rounds, in the summary call.  A
\* generate_summary that does not take the keyword "max_tokens" raises
\* TypeError at line 217: the exception leaves the engine and line 360 takes
\* the lock.
GenReturn(j) ==
    /\ Suspended(j)
    /\ tasks[j].pc = "gen"
    /\ CallReturns(j)
    /\ LET next == NextPosition(jobs[j].request, tasks[j].turn, tasks[j].idx)
           transcript == Append(tasks[j].transcript, ChatMessage(Speaker(j), Reply(j)))
       IN IF next.pc = "gen"
          THEN /\ tasks' = [tasks EXCEPT
                      ![j].transcript = transcript,
                      ![j].pc = "gen", ![j].turn = next.turn, ![j].idx = next.idx,
                      ![j].prompt = Some(BuildPrompt(jobs[j].request, transcript,
                                            jobs[j].request.participants[next.idx])),
                      ![j].calls = @ + 1]
               /\ UNCHANGED <<lock, cpu>>
          ELSE IF AcceptsMaxTokens(generate_summary)
          THEN /\ tasks' = [tasks EXCEPT
                      ![j].transcript = transcript,
                      ![j].pc = "summary", ![j].summaries = @ + 1]
               /\ UNCHANGED <<lock, cpu>>
          ELSE /\ lock = Free
               /\ lock' = Holder("task", j)
               /\ cpu' = Frame("task", "", j, None, None)
               /\ tasks' = [tasks EXCEPT
                      ![j].transcript = transcript,
                      ![j].pc = "h_exception",
                      ![j].exc = Some(UnexpectedKeywordMessage("generate_summary",
                                                               "max_tokens"))]
    /\ UNCHANGED <<jobs, shutdown, timeout_seconds, generation_timeout_seconds, generate_summary>>

\* An exception leaves run_simulation and reaches line 359, which takes the
\* lock.
RaiseInTask(j, message) ==
    /\ lock = Free
    /\ lock' = Holder("task", j)
    /\ cpu' = Frame("task", "", j, None, None)
    /\ tasks' = [tasks EXCEPT ![j].pc = "h_exception", ![j].exc = Some(message)]
    /\ UNCHANGED <<jobs, shutdown, timeout_seconds, generation_timeout_seconds, generate_summary>>

\* The TimeoutError of the per-call wait_for left as it is: it leaves the
\* engine and reaches line 346, which takes the lock.
PerCallTimeoutUnconverted(j, message) ==
    /\ lock = Free
    /\ lock' = Holder("task", j)
    /\ cpu' = Frame("task", "", j, None, None)
    /\ tasks' = [tasks EXCEPT ![j].pc = "h_timeout"]
    /\ UNCHANGED <<jobs, shutdown, timeout_seconds, generation_timeout_seconds, generate_summary>>

\* _await_with_timeout, lines 173-174: the TimeoutError of the per-call
\* wait_for becomes a SimulationError with the message of the caller.
PerCallTimeout(j, message) == RaiseInTask(j, message)

\* lines 211-214: the generation call fails.
GenRaise(j) ==
    /\ Suspended(j)
    /\ tasks[j].pc = "gen"
    /\ CallRaises(j)
    /\ RaiseInTask(j, ReplyFailedMessage(Speaker(j)))

\* lines 173-174 and 202-205: the per-call budget expires.
GenCallTimeout(j) ==
    /\ Suspended(j)
    /\ tasks[j].pc = "gen"
    /\ CallTimesOut(j)
    /\ PerCallTimeout(j, ReplyTimedOutMessage(Speaker(j)))

\* lines 223-239 and 367-368: the summary arrives, the result is built and
\* the lock taken.
SummaryReturn(j) ==
    /\ Suspended(j)
    /\ tasks[j].pc = "summary"
    /\ CallReturns(j)
    /\ lock = Free
    /\ lock' = Holder("task", j)
    /\ cpu' = Frame("task", "", j, None, None)
    /\ tasks' = [tasks EXCEPT ![j].pc = "h_complete",
                              ![j].summary = Some("Synthetic summary")]
    /\ UNCHANGED <<jobs, shutdown, timeout_seconds, generation_timeout_seconds, generate_summary>>

\* lines 235-236: the summary call fails.
SummaryRaise(j) ==
    /\ Suspended(j)
    /\ tasks[j].pc = "summary"
    /\ CallRaises(j)
    /\ RaiseInTask(j, SummaryFailedMessage)

\* lines 173-174 and 226-229: the per-call budget of the summary expires.
SummaryCallTimeout(j) ==
    /\ Suspended(j)
    /\ tasks[j].pc = "summary"
    /\ CallTimesOut(j)
    /\ PerCallTimeout(j, SummaryTimedOutMessage)

\* The deadline of asyncio.wait_for (line 332) passes: the loop's timer
\* callback cancels the engine.
TimerFire(j) ==
    /\ cpu = Idle
    /\ tasks[j].pc \in {"gen", "summary"}
    /\ tasks[j].timer = "armed"
    /\ tasks[j].when <= LoopTime
    /\ tasks' = [tasks EXCEPT ![j].timer = "fired", ![j].when = 0]
    /\ UNCHANGED <<jobs, lock, cpu, shutdown, timeout_seconds, generation_timeout_seconds, generate_summary>>

\* A generation capability that ignores cancellation swallows the request
\* of task.cancel() or of wait_for and goes on with its call.
SwallowCancel(j) ==
    /\ Suspended(j)
    /\ ~HonoursCancel(tasks[j].client)
    /\ ~NoSignal(j)
    /\ tasks' = [tasks EXCEPT ![j].cancel = FALSE,
                              ![j].timer = IF @ = "fired" THEN "spent" ELSE @]
    /\ UNCHANGED <<jobs, lock, cpu, shutdown, timeout_seconds, generation_timeout_seconds, generate_summary>>

\* The CancelledError caught by the clause for Exception of lines 211 and
\* 235 and turned into a SimulationError.
DeliverCancelConverted(j) ==
    /\ Suspended(j)
    /\ tasks[j].cancel
    /\ HonoursCancel(tasks[j].client)
    /\ lock = Free
    /\ lock' = Holder("task", j)
    /\ cpu' = Frame("task", "", j, None, None)
    /\ tasks' = [tasks EXCEPT
           ![j].pc = "h_exception", ![j].cancel = FALSE,
           ![j].exc = Some(IF tasks[j].pc = "gen"
                           THEN ReplyFailedMessage(Speaker(j))
                           ELSE SummaryFailedMessage)]
    /\ UNCHANGED <<jobs, shutdown, timeout_seconds, generation_timeout_seconds, generate_summary>>

\* lines 207-208, 231-232 and 337-338: the CancelledError of task.cancel()
\* propagates out of the engine; the handler takes the lock.
DeliverCancel(j) ==
    /\ Suspended(j)
    /\ tasks[j].cancel
    /\ HonoursCancel(tasks[j].client)
    /\ lock = Free
    /\ lock' = Holder("task", j)
    /\ cpu' = Frame("task", "", j, None, None)
    /\ tasks' = [tasks EXCEPT ![j].pc = "h_cancelled", ![j].cancel = FALSE]
    /\ UNCHANGED <<jobs, shutdown, timeout_seconds, generation_timeout_seconds, generate_summary>>

\* lines 332-334 and 346-347: wait_for raises TimeoutError once the engine
\* is cancelled; the handler takes the lock.  With a task.cancel() pending
\* as well the task sees the CancelledError instead (DeliverCancel).
DeliverTimeout(j) ==
    /\ Suspended(j)
    /\ tasks[j].timer = "fired"
    /\ ~tasks[j].cancel
    /\ HonoursCancel(tasks[j].client)
    /\ lock = Free
    /\ lock' = Holder("task", j)
    /\ cpu' = Frame("task", "", j, None, None)
    /\ tasks' = [tasks EXCEPT ![j].pc = "h_timeout", ![j].timer = "spent"]
    /\ UNCHANGED <<jobs, shutdown, timeout_seconds, generation_timeout_seconds, generate_summary>>

\* The task leaves its last locked block and finishes.
FinishTask(j, state, outcome) ==
    /\ jobs' = [jobs EXCEPT ![j] = state]
    /\ lock' = Free
    /\ cpu' = Idle
    /\ tasks' = [tasks EXCEPT ![j].pc = "done", ![j].outcome = outcome]
    /\ UNCHANGED <<shutdown, timeout_seconds, generation_timeout_seconds, generate_summary>>

\* The handler without the tests of lines 339 and 341.
OnCancelledOverwrites(state) ==
    [state EXCEPT !.status = FAILED, !.error = Some(CancelledMessage),
                  !.task = None, !.started_at = None]

\* lines 339-344.
OnCancelled(state) ==
    [state EXCEPT
       !.status = IF state.status = RUNNING THEN FAILED ELSE @,
       !.error = IF state.status = RUNNING /\ state.error = None
                 THEN Some(CancelledMessage) ELSE @,
       !.task = None,
       !.started_at = None]

HandleCancelled(j) ==
    /\ Executing(j)
    /\ tasks[j].pc = "h_cancelled"
    /\ FinishTask(j, OnCancelled(jobs[j]), "cancelled")

\* The handler with the text of the cancellation handler.
OnTimeoutCancelledText(state) ==
    [state EXCEPT !.status = FAILED, !.error = Some(CancelledMessage),
                  !.task = None, !.started_at = None]

\* The handler with the text of the defensive branch of line 356 only.
OnTimeoutFallbackText(state) ==
    [state EXCEPT !.status = FAILED,
                  !.error = Some(ErrorText("Simulation exceeded the maximum runtime.", "", 0)),
                  !.task = None, !.started_at = None]

\* lines 348-357.
OnTimeout(state) ==
    [state EXCEPT
       !.status = FAILED,
       !.error = IF timeout_seconds /= None
                 THEN Some(RuntimeExceededMessage(Val(timeout_seconds)))
                 ELSE Some(ErrorText("Simulation exceeded the maximum runtime.", "", 0)),
       !.task = None,
       !.started_at = None]

HandleTimeout(j) ==
    /\ Executing(j)
    /\ tasks[j].pc = "h_timeout"
    /\ FinishTask(j, OnTimeout(jobs[j]), "timeout")

\* The handler without the change of status.
OnExceptionKeepsStatus(state, exc) ==
    [state EXCEPT !.error = Some(exc), !.task = None, !.started_at = None]

\* lines 361-364.
OnException(state, exc) ==
    [state EXCEPT !.status = FAILED, !.error = Some(exc),
                  !.task = None, !.started_at = None]

HandleException(j) ==
    /\ Executing(j)
    /\ tasks[j].pc = "h_exception"
    /\ FinishTask(j, OnException(jobs[j], Val(tasks[j].exc)), "exception")

\* The completion block without the reset of the start time.
OnCompletedKeepsStart(state, result) ==
    [state EXCEPT !.status = COMPLETED, !.result = Some(result), !.task = None]

\* lines 238 and 367-372.
OnCompleted(state, result) ==
    [state EXCEPT !.status = COMPLETED, !.result = Some(result),
                  !.task = None, !.started_at = None]

HandleComplete(j) ==
    /\ Executing(j)
    /\ tasks[j].pc = "h_complete"
    /\ FinishTask(j, OnCompleted(jobs[j],
                        SimulationResponse(tasks[j].transcript, Val(tasks[j].summary),
                            BuildSimulationGraph(jobs[j].request, tasks[j].transcript,
                                                 Val(tasks[j].summary)))),
                  "completed")

\* ---------------------------------------------------------------- shutdown
\* shutdown is called and takes the lock (line 377).
ShutdownCall ==
    /\ cpu = Idle
    /\ shutdown.pc = "idle"
    /\ lock = Free
    /\ lock' = Holder("shutdown", 0)
    /\ cpu' = Frame("shutdown", "", 0, None, None)
    /\ shutdown' = [shutdown EXCEPT !.pc = "locked"]
    /\ UNCHANGED <<jobs, tasks, timeout_seconds, generation_timeout_seconds, generate_summary>>

\* line 378: the bound task handles, in the order of the registry.
RECURSIVE BoundTasks(_)
BoundTasks(n) ==
    IF n = 0 THEN <<>>
    ELSE IF n \in DOMAIN jobs /\ jobs[n].task /= None
    THEN Append(BoundTasks(n - 1), Val(jobs[n].task))
    ELSE BoundTasks(n - 1)

\* lines 379-383: the position of the first task from position i on that is
\* not done; Len(list) + 1 when there is none.
RECURSIVE NextUnfinished(_, _)
NextUnfinished(list, i) ==
    IF i > Len(list) THEN i
    ELSE IF TaskDone(list[i]) THEN NextUnfinished(list, i + 1)
    ELSE i

\* The loop as a cancel-all followed by the waits: every task of the list
\* that is not done is cancelled at once.
ShutdownLoopCancelAll(list, i) ==
    LET k == NextUnfinished(list, i)
        unfinished == {list[n] : n \in {m \in k..Len(list) : ~TaskDone(list[m])}}
    IN /\ shutdown' = [shutdown EXCEPT
                         !.pc = IF k > Len(list) THEN "returned" ELSE "awaiting",
                         !.tasks = list,
                         !.i = k,
                         !.cancelled = @ \cup unfinished]
       /\ tasks' = [j \in JobIds |->
                      IF j \in unfinished THEN [tasks[j] EXCEPT !.cancel = TRUE]
                      ELSE tasks[j]]
       /\ cpu' = Idle

\* lines 379-386: the loop runs from position i up to the next task that is
\* not done, cancels it and suspends in "await task"; with no such task left
\* shutdown returns.
ShutdownLoop(list, i) ==
    LET k == NextUnfinished(list, i)
    IN /\ shutdown' = [shutdown EXCEPT
                         !.pc = IF k > Len(list) THEN "returned" ELSE "awaiting",
                         !.tasks = list,
                         !.i = k,
                         !.cancelled = IF k > Len(list) THEN @ ELSE @ \cup {list[k]}]
       /\ tasks' = IF k > Len(list) THEN tasks ELSE CancelTask(tasks, list[k])
       /\ cpu' = Idle

\* line 378 and the release of the lock, then the loop.
ShutdownCollect ==
    /\ cpu.kind = "shutdown"
    /\ shutdown.pc = "locked"
    /\ lock' = Free
    /\ ShutdownLoop(BoundTasks(MaxJobs), 1)
    /\ UNCHANGED <<jobs, timeout_seconds, generation_timeout_seconds, generate_summary>>

\* line 386: what "await task" raises once the task has settled.  A task of
\* _execute_job that ran returns normally; one cancelled before its first
\* step ends cancelled.
AwaitTask(task) ==
    IF task.outcome = "cancelled-unstarted" THEN "CancelledError" ELSE ""

\* The await of line 386 without the suppress block.
NoSuppress(exc) == exc

\* line 385: suppress(asyncio.CancelledError).
Suppress(exc) == IF exc = "CancelledError" THEN "" ELSE exc

\* The loop over the registry itself instead of the list of line 378: after
\* each wait the bound tasks are read again.
ShutdownResumeRereads ==
    /\ cpu = Idle
    /\ shutdown.pc = "awaiting"
    /\ TaskDone(shutdown.tasks[shutdown.i])
    /\ LET exc == Suppress(AwaitTask(tasks[shutdown.tasks[shutdown.i]]))
           rest == SelectSeq(BoundTasks(MaxJobs), LAMBDA t : ~TaskDone(t))
       IN IF exc = ""
          THEN ShutdownLoop(rest, 1)
          ELSE /\ shutdown' = [shutdown EXCEPT !.pc = "raised", !.raised = exc]
               /\ UNCHANGED <<tasks, cpu>>
    /\ UNCHANGED <<jobs, lock, timeout_seconds, generation_timeout_seconds, generate_summary>>

\* line 386: the awaited task has settled; the loop goes on, unless the
\* await raised.
ShutdownResume ==
    /\ cpu = Idle
    /\ shutdown.pc = "awaiting"
    /\ TaskDone(shutdown.tasks[shutdown.i])
    /\ LET exc == Suppress(AwaitTask(tasks[shutdown.tasks[shutdown.i]]))
       IN IF exc = ""
          THEN ShutdownLoop(shutdown.tasks, shutdown.i + 1)
          ELSE /\ shutdown' = [shutdown EXCEPT !.pc = "raised", !.raised = exc]
               /\ UNCHANGED <<tasks, cpu>>
    /\ UNCHANGED <<jobs, lock, timeout_seconds, generation_timeout_seconds, generate_summary>>

\* ------------------------------------------------------------ specification
TaskStep(j) ==
    \/ TaskCancelledBeforeStart(j)
    \/ TaskStart(j)
    \/ TaskEnter(j)
    \/ GenReturn(j)
    \/ GenRaise(j)
    \/ GenCallTimeout(j)
    \/ SummaryReturn(j)
    \/ SummaryRaise(j)
    \/ SummaryCallTimeout(j)
    \/ DeliverCancel(j)
    \/ DeliverTimeout(j)
    \/ HandleCancelled(j)
    \/ HandleTimeout(j)
    \/ HandleException(j)
    \/ HandleComplete(j)

Next ==
    \/ \E request \in SimulationRequest, client \in ClientKinds :
          StartSimulationCall(request, client)
    \/ StartSimulationRegister
    \/ StartSimulationSpawn
    \/ StartSimulationGet
    \/ \E job_id \in JobIds : GetJobCall(job_id)
    \/ GetJobBody
    \/ CallReturn
    \/ \E j \in JobIds : TaskStep(j)
    \/ \E j \in JobIds : TimerFire(j)
    \/ \E j \in JobIds : SwallowCancel(j)
    \/ ShutdownCall
    \/ ShutdownCollect
    \/ ShutdownResume
    \/ Tick

Spec == Init /\ [][Next]_vars

\* The coroutine that is running goes on to its next suspension point.
RunningStep ==
    \/ StartSimulationRegister
    \/ StartSimulationSpawn
    \/ StartSimulationGet
    \/ GetJobBody
    \/ CallReturn
    \/ ShutdownCollect
    \/ \E j \in JobIds :
          \/ TaskEnter(j)
          \/ HandleCancelled(j)
          \/ HandleTimeout(j)
          \/ HandleException(j)
          \/ HandleComplete(j)

\* The event loop is fair: a coroutine that is running goes on, a task that
\* is ready to run is resumed, a timer that is due fires and time passes.
\* Calls to start_simulation, get_job and shutdown are up to the callers, and
\* so is what a generation capability that ignores cancellation does.
Fairness ==
    /\ WF_vars(RunningStep)
    /\ SF_vars(Tick)
    /\ SF_vars(ShutdownResume)
    /\ \A j \in JobIds : SF_vars(TaskStep(j)) /\ SF_vars(TimerFire(j))

\* The behaviours with a single job, under the fair event loop: every call
\* and step of Next, with start_simulation called for the first job only.
StartFirstSimulation(request, client) ==
    /\ jobs = <<>>
    /\ StartSimulationCall(request, client)

NextOneJob ==
    \/ \E request \in OneJobRequests, client \in ClientKinds :
          StartFirstSimulation(request, client)
    \/ StartSimulationRegister
    \/ StartSimulationSpawn
    \/ StartSimulationGet
    \/ \E job_id \in JobIds : GetJobCall(job_id)
    \/ GetJobBody
    \/ CallReturn
    \/ \E j \in JobIds : TaskStep(j)
    \/ \E j \in JobIds : TimerFire(j)
    \/ \E j \in JobIds : SwallowCancel(j)
    \/ ShutdownCall
    \/ ShutdownCollect
    \/ ShutdownResume
    \/ Tick

FairSpec == Init /\ [][NextOneJob]_vars /\ Fairness

\* The behaviours of start_simulation and shutdown with up to MaxJobs jobs
\* and no separate get_job call, under the fair event loop.
NextShutdown ==
    \/ \E request \in SimulationRequest, client \in ClientKinds :
          StartSimulationCall(request, client)
    \/ StartSimulationRegister
    \/ StartSimulationSpawn
    \/ StartSimulationGet
    \/ CallReturn
    \/ \E j \in JobIds : TaskStep(j)
    \/ \E j \in JobIds : TimerFire(j)
    \/ \E j \in JobIds : SwallowCancel(j)
    \/ ShutdownCall
    \/ ShutdownCollect
    \/ ShutdownResume
    \/ Tick

FairShutdownSpec == Init /\ [][NextShutdown]_vars /\ Fairness

\* A pending CancelledError is thrown into the task at its next step, also
\* when the generation capability then ignores it and goes on: its calls
\* still return or fail in the end.
DeliveryFairness == \A j \in JobIds : SF_vars(SwallowCancel(j))

\* The one-job behaviours in which, in addition, every call of a capability
\* that ignores cancellation ends.
FairDeliverySpec == Init /\ [][NextOneJob]_vars /\ Fairness /\ DeliveryFairness

\* ------------------------------------------------------------------ claims
Terminal(status) == status \in {COMPLETED, FAILED}

Elapsed(state) == LoopTime - Val(state.started_at)

\* The fields of a job state that C10 is about.
GuardedFields(state) == <<state.status, state.result, state.error, state.task>>

\* C1: once a job is Completed or Failed, no step changes its status, result
\* or error, so every later get_job returns the same snapshot.
C1_TerminalAbsorbing ==
    [][\A j \in DOMAIN jobs :
          Terminal(jobs[j].status) => SnapshotJob(jobs'[j]) = SnapshotJob(jobs[j])]_vars

\* C2: every change of a job's status is Pending->Running, Running->Completed
\* or Running->Failed, and a job enters the registry as Pending.
C2_StatusTransitions ==
    [][\A j \in DOMAIN jobs' :
          IF j \in DOMAIN jobs
          THEN \/ jobs'[j].status = jobs[j].status
               \/ <<jobs[j].status, jobs'[j].status>> \in
                     {<<PENDING, RUNNING>>, <<RUNNING, COMPLETED>>, <<RUNNING, FAILED>>}
          ELSE jobs'[j].status = PENDING]_vars

\* C3: a job has a result only when Completed, an error only when Failed, and
\* never both.
C3_ResultErrorExclusive ==
    \A j \in DOMAIN jobs :
        /\ jobs[j].result /= None => jobs[j].status = COMPLETED
        /\ jobs[j].error /= None => jobs[j].status = FAILED
        /\ ~(jobs[j].result /= None /\ jobs[j].error /= None)

\* C4: a Completed job keeps its status and result in every step, and a job
\* becomes Failed only in a step that finds it Running.
C4_CompletedNeverOverwritten ==
    [][\A j \in DOMAIN jobs :
          /\ jobs[j].status = COMPLETED =>
                /\ jobs'[j].status = COMPLETED
                /\ jobs'[j].result = jobs[j].result
          /\ (jobs'[j].status = FAILED /\ jobs[j].status /= FAILED) =>
                jobs[j].status = RUNNING]_vars

\* C4 witness: shutdown has cancelled the task of a job and waits for it,
\* and the job is Completed with its result.
C4_Witness ==
    \E j \in DOMAIN jobs :
        /\ shutdown.pc = "awaiting"
        /\ shutdown.tasks[shutdown.i] = j
        /\ jobs[j].status = COMPLETED
        /\ jobs[j].result /= None

\* C5: the locked block of get_job on a Running job that is over budget
\* returns a Failed snapshot with the budget message and leaves a
\* cancellation request on the task, which has not finished.
C5_ReactiveTimeoutInline ==
    [][\A j \in DOMAIN jobs :
          ( /\ cpu.kind = "get" /\ cpu.pc = "locked" /\ cpu.job = j
            /\ timeout_seconds /= None
            /\ jobs[j].status = RUNNING
            /\ jobs[j].started_at /= None
            /\ Elapsed(jobs[j]) > Val(timeout_seconds) )
          => /\ cpu'.pc = "returned"
             /\ cpu'.ret = Some(Returned(
                   [job_id |-> j, status |-> FAILED, result |-> None,
                    error |-> Some(RuntimeExceededMessage(Val(timeout_seconds)))]))
             /\ jobs'[j].status = FAILED
             /\ ~TaskDone(j)
             /\ tasks'[j].cancel
             /\ tasks'[j].pc = tasks[j].pc]_vars

\* C5 witness: get_job has returned Failed with the budget message while the
\* task is still suspended in a call, its deadline not fired, the
\* cancellation not yet delivered.
C5_Witness ==
    \E j \in DOMAIN jobs :
        /\ cpu.kind = "get" /\ cpu.pc = "returned" /\ cpu.job = j
        /\ cpu.ret /= None
        /\ Val(cpu.ret).value /= None
        /\ Val(Val(cpu.ret).value).status = FAILED
        /\ timeout_seconds /= None
        /\ Val(Val(cpu.ret).value).error =
              Some(RuntimeExceededMessage(Val(timeout_seconds)))
        /\ tasks[j].pc \in {"gen", "summary"}
        /\ tasks[j].timer = "armed"
        /\ tasks[j].cancel

BudgetFailure(j) ==
    /\ j \in DOMAIN jobs
    /\ jobs[j].status = FAILED
    /\ timeout_seconds /= None
    /\ jobs[j].error = Some(RuntimeExceededMessage(Val(timeout_seconds)))

InCall(j) == tasks[j].pc \in {"gen", "summary"}

\* C6: with a budget and no per-call budget, a job suspended in a call of a
\* slow client becomes Failed with the budget message; and whenever the
\* deadline of wait_for has fired on a call that honours cancellation the job
\* becomes Failed with the budget message.  No get_job call is needed; a job
\* that shutdown cancels is left out.
C6_ProactiveTimeout ==
    \A j \in JobIds :
        /\ ( /\ InCall(j)
             /\ tasks[j].client = "slow"
             /\ timeout_seconds /= None
             /\ generation_timeout_seconds = None )
           ~> (BudgetFailure(j) \/ j \in shutdown.cancelled)
        /\ ( /\ InCall(j)
             /\ tasks[j].timer = "fired"
             /\ HonoursCancel(tasks[j].client) )
           ~> (BudgetFailure(j) \/ j \in shutdown.cancelled)

\* C6 witness: the task of a slow client ended in the TimeoutError handler
\* and the job is Failed with the budget message; the guard of get_job never
\* cancelled it and shutdown was not called.
C6_Witness ==
    \E j \in DOMAIN jobs :
        /\ tasks[j].client = "slow"
        /\ tasks[j].outcome = "timeout"
        /\ BudgetFailure(j)
        /\ shutdown.pc = "idle"

\* C7: without a budget the locked block of get_job changes no job and
\* cancels nothing, and a job whose generation calls and summary call are
\* taken and return becomes Completed with a result, unless shutdown cancels
\* it.
C7_NoBudgetNoTimeout ==
    /\ [][( /\ timeout_seconds = None
            /\ \/ cpu.kind = "get" /\ cpu.pc = "locked"
               \/ cpu.kind = "start" /\ cpu.pc = "get_locked" )
          => jobs' = jobs /\ tasks' = tasks]_vars
    /\ \A j \in JobIds :
          ( /\ timeout_seconds = None
            /\ tasks[j].pc /= "absent"
            /\ tasks[j].client = "ok"
            /\ AcceptsMaxTokens(generate_summary) )
          ~> \/ j \in DOMAIN jobs /\ jobs[j].status = COMPLETED /\ jobs[j].result /= None
             \/ j \in shutdown.cancelled

\* C7 witness: without a budget get_job has returned Running for a job that
\* started more than MaxTimeout ticks ago.
C7_Witness ==
    \E j \in DOMAIN jobs :
        /\ timeout_seconds = None
        /\ cpu.kind = "get" /\ cpu.pc = "returned" /\ cpu.job = j
        /\ cpu.ret = Some(Returned(SnapshotJob(jobs[j])))
        /\ jobs[j].status = RUNNING
        /\ Elapsed(jobs[j]) > MaxTimeout
        /\ tasks[j].client = "ok"

\* C8: when a task that shutdown has cancelled and waits for settles, a job
\* that was not terminal becomes Failed with "Simulation was cancelled.",
\* and a job that was terminal is unchanged.
C8_ShutdownCancelFails ==
    [][\A j \in DOMAIN jobs :
          ( /\ shutdown.pc = "awaiting"
            /\ shutdown.tasks[shutdown.i] = j
            /\ ~TaskDone(j)
            /\ tasks'[j].pc = "done" )
          => IF Terminal(jobs[j].status)
             THEN SnapshotJob(jobs'[j]) = SnapshotJob(jobs[j])
             ELSE /\ jobs'[j].status = FAILED
                  /\ jobs'[j].error = Some(CancelledMessage)]_vars

C10_WritesUnderLock ==
    [][\A j \in DOMAIN jobs' :
          (j \notin DOMAIN jobs \/ GuardedFields(jobs'[j]) /= GuardedFields(jobs[j]))
          => lock = Holder(cpu.kind, cpu.job)]_vars

\* C11: the lock is held only by the coroutine that is running and is free
\* whenever no coroutine runs, that is at every suspension point: while a job
\* waits in a generation or summary call, get_job, start_simulation and
\* shutdown find the lock free, and a coroutine that reaches a lock block in
\* the middle of its run finds it free as well.
C11_LockFreeWhileSuspended ==
    /\ cpu = Idle => lock = Free
    /\ lock /= Free => lock = Holder(cpu.kind, cpu.job)
    /\ (cpu.kind = "start" /\ cpu.pc = "registered") => lock = Free
    /\ \A j \in JobIds : tasks[j].pc \in {"gen", "summary"} =>
           lock /= Holder("task", j)

\* C11 witness: start_simulation of one job has returned its snapshot while
\* the task of another job is suspended in a generation call.
C11_Witness ==
    \E j \in DOMAIN jobs :
        /\ tasks[j].pc = "gen"
        /\ jobs[j].status = RUNNING
        /\ cpu.kind = "start" /\ cpu.pc = "returned" /\ cpu.job /= j
        /\ cpu.ret /= None /\ Val(cpu.ret).value /= None
        /\ lock = Free

\* C12: the locked block of get_job for an identifier that is not in the
\* registry ends with KeyError and changes neither the registry nor a task;
\* and get_job ends with KeyError only for an identifier that is not in the
\* registry.
C12_UnknownJobKeyError ==
    /\ [][(cpu.kind = "get" /\ cpu.pc = "locked" /\ cpu.job \notin DOMAIN jobs)
          => /\ cpu'.pc = "returned"
             /\ cpu'.ret = Some(Raised("KeyError"))
             /\ jobs' = jobs
             /\ tasks' = tasks]_vars
    /\ []((cpu.kind = "get" /\ cpu.pc = "returned")
          => (Val(cpu.ret).raised = "KeyError" <=> cpu.job \notin DOMAIN jobs))

\* C12 witness: get_job for an identifier that was never submitted has ended
\* with KeyError while another job is in the registry, Running.
C12_Witness ==
    /\ cpu.kind = "get" /\ cpu.pc = "returned"
    /\ cpu.ret = Some(Raised("KeyError"))
    /\ cpu.job \notin DOMAIN jobs
    /\ \E j \in DOMAIN jobs : jobs[j].status = RUNNING

\* C13: an exception that leaves the engine (a failed generation or summary
\* call, an expired per-call budget, a TypeError of a call) is handled by the
\* except block of line 359: the step that ends the task records Failed with
\* the text of the exception; and a job whose task is done is never Running.
C13_FaultsRecordedAsFailed ==
    /\ [][\A j \in DOMAIN jobs :
            /\ (tasks'[j].exc /= tasks[j].exc) => tasks'[j].pc = "h_exception"
            /\ (tasks[j].pc = "h_exception" /\ tasks'[j].pc /= "h_exception")
               => /\ tasks'[j].pc = "done"
                  /\ jobs'[j].status = FAILED
                  /\ jobs'[j].error = tasks[j].exc
                  /\ jobs'[j].result = jobs[j].result]_vars
    /\ [](\A j \in DOMAIN jobs : TaskDone(j) => jobs[j].status /= RUNNING)

\* C13 witness: two tasks have finished in the except block of line 359, one
\* after an expired per-call budget and one after a TypeError, and both jobs
\* are Failed with the text of their exception.
C13_Witness ==
    \E j, k \in DOMAIN jobs :
        /\ TaskDone(j) /\ TaskDone(k)
        /\ tasks[j].outcome = "exception" /\ tasks[k].outcome = "exception"
        /\ jobs[j].status = FAILED /\ jobs[k].status = FAILED
        /\ jobs[j].error = Some(ReplyTimedOutMessage("Engineer"))
        /\ jobs[k].error \in {Some(UnexpectedKeywordMessage("generate", "options")),
                             Some(UnexpectedKeywordMessage("generate_summary", "max_tokens"))}

\* Number of messages of a complete transcript.
ExpectedMessages(request) == request.turns * Len(request.participants)

\* C14: a job whose task ended with the failure of a participant's
\* generation call (the transcript is not complete) is Failed with an error
\* that names the role of that participant, has no result, and the engine
\* made no generation call after the failed one and no summary call.
C14_FailedCallNamesRole ==
    \A j \in DOMAIN jobs :
        ( /\ TaskDone(j)
          /\ tasks[j].outcome = "exception"
          /\ Len(tasks[j].transcript) < ExpectedMessages(jobs[j].request) )
        => /\ jobs[j].status = FAILED
           /\ jobs[j].result = None
           /\ jobs[j].error /= None
           /\ Val(jobs[j].error).role = jobs[j].request.participants[tasks[j].idx]
           /\ tasks[j].calls <= Len(tasks[j].transcript) + 1
           /\ tasks[j].summaries = 0

\* C15: the result of a Completed job holds turns x participants messages.
C15_TranscriptLength ==
    \A j \in DOMAIN jobs :
        jobs[j].status = COMPLETED =>
            /\ jobs[j].result /= None
            /\ Len(Val(jobs[j].result).messages) =
                  jobs[j].request.turns * Len(jobs[j].request.participants)

\* C15 witness: a job of two turns and three participants is Completed with
\* six messages.
C15_Witness ==
    \E j \in DOMAIN jobs :
        /\ jobs[j].status = COMPLETED
        /\ jobs[j].request.turns = 2
        /\ Len(jobs[j].request.participants) = 3
        /\ jobs[j].result /= None
        /\ Len(Val(jobs[j].result).messages) = 6

\* The role the message at position i (from 1) of a transcript must carry:
\* participant ((i - 1) mod n) + 1 of the list.
RoleAt(request, i) ==
    request.participants[((i - 1) % Len(request.participants)) + 1]

\* C16: at every moment the message at position i of the transcript of a
\* job, and of its result, carries the role of participant (i - 1) mod n.
C16_TurnMajorOrder ==
    \A j \in DOMAIN jobs :
        /\ \A i \in 1..Len(tasks[j].transcript) :
              tasks[j].transcript[i].role = RoleAt(jobs[j].request, i)
        /\ jobs[j].result /= None =>
              \A i \in 1..Len(Val(jobs[j].result).messages) :
                 Val(jobs[j].result).messages[i].role = RoleAt(jobs[j].request, i)

\* C16 witness: in the second round of a job of three participants the
\* engine waits for the second participant, the first having spoken twice.
C16_Witness ==
    \E j \in DOMAIN jobs :
        /\ tasks[j].pc = "gen"
        /\ Len(jobs[j].request.participants) = 3
        /\ Len(tasks[j].transcript) = 4
        /\ tasks[j].transcript[4].role = jobs[j].request.participants[1]
        /\ tasks[j].transcript[3].role = jobs[j].request.participants[3]

\* C17: the engine has made one generation call per reply and one for the
\* call it waits in; it makes at most one summary call, and only when the
\* transcript is complete after turns x participants generation calls; a
\* task that ended with a result made exactly that many generation calls and
\* one summary call.
C17_OneCallPerMessage ==
    \A j \in DOMAIN jobs :
        /\ tasks[j].pc = "gen" =>
              /\ tasks[j].calls = Len(tasks[j].transcript) + 1
              /\ tasks[j].summaries = 0
        /\ tasks[j].summaries <= 1
        /\ tasks[j].pc = "summary" => tasks[j].summaries = 1
        /\ tasks[j].summaries = 1 =>
              /\ Len(tasks[j].transcript) = ExpectedMessages(jobs[j].request)
              /\ tasks[j].calls = ExpectedMessages(jobs[j].request)
        /\ tasks[j].outcome = "completed" =>
              /\ tasks[j].calls = ExpectedMessages(jobs[j].request)
              /\ tasks[j].summaries = 1

\* C17 witness: a task of a request of two turns and two participants has
\* ended with a result after four generation calls and one summary call.
C17_Witness ==
    \E j \in DOMAIN jobs :
        /\ tasks[j].outcome = "completed"
        /\ jobs[j].request.turns = 2
        /\ Len(jobs[j].request.participants) = 2
        /\ tasks[j].calls = 4
        /\ tasks[j].summaries = 1

\* The lines of a rendered conversation that stand for messages.
MessageLines(request, conversation) ==
    IF conversation = << <<"", "(no previous dialogue)">> >> THEN <<>>
    ELSE IF request.context /= None THEN Tail(conversation)
    ELSE conversation

\* C18: while the engine waits in its k-th generation call, the prompt of
\* that call is addressed to the participant whose turn it is and its
\* conversation holds the k - 1 replies made so far, "response-1" to
\* "response-(k-1)" in the order of the transcript, after the scenario line
\* when the request has one.
C18_SequentialContext ==
    \A j \in DOMAIN jobs :
        tasks[j].pc = "gen" =>
            /\ tasks[j].prompt /= None
            /\ Val(tasks[j].prompt).role = RoleAt(jobs[j].request, tasks[j].calls)
            /\ LET lines == MessageLines(jobs[j].request,
                                         Val(tasks[j].prompt).conversation)
               IN /\ Len(lines) = tasks[j].calls - 1
                  /\ \A i \in 1..Len(lines) :
                        lines[i] = <<RoleAt(jobs[j].request, i), i>>
            /\ jobs[j].request.context /= None =>
                  Val(tasks[j].prompt).conversation[1] =
                     <<"Scenario", Val(jobs[j].request.context)>>

\* C18 witness: the engine waits for the third of three participants in the
\* first round; the prompt holds the two replies of that round.
C18_Witness ==
    \E j \in DOMAIN jobs :
        /\ tasks[j].pc = "gen"
        /\ tasks[j].turn = 1 /\ tasks[j].idx = 3
        /\ jobs[j].request.context = None
        /\ Val(tasks[j].prompt).conversation =
              << <<"Engineer", 1>>, <<"Strategist", 2>> >>

\* C19: when start_simulation has its result, that is the snapshot of the new
\* job as Pending without result and error, the task of the job has not run
\* its first step and no generation call was made for the job.
C19_StartReturnsPending ==
    (cpu.kind = "start" /\ cpu.pc = "returned")
    => /\ cpu.ret = Some(Returned([job_id |-> cpu.job, status |-> PENDING,
                                   result |-> None, error |-> None]))
       /\ jobs[cpu.job].status = PENDING
       /\ tasks[cpu.job].pc = "created"
       /\ tasks[cpu.job].calls = 0
       /\ tasks[cpu.job].prompt = None

\* C19 witness: start_simulation of a second job has its result while the
\* budget of the coordinator is set and the first job is Running.
C19_Witness ==
    /\ cpu.kind = "start" /\ cpu.pc = "returned" /\ cpu.job = 2
    /\ Val(Val(cpu.ret).value).status = PENDING
    /\ timeout_seconds /= None
    /\ jobs[1].status = RUNNING
    /\ tasks[2].pc = "created"

\* C20: a step changes the set of identifiers only in the locked block of
\* start_simulation, which adds one identifier that was not there with a
\* Pending state without result, error and task; no identifier is removed,
\* no entry changes its job_id or request, and get_job for an identifier of
\* the registry returns a snapshot.
C20_RegistryOnlyGrows ==
    /\ [][/\ DOMAIN jobs \subseteq DOMAIN jobs'
          /\ \A j \in DOMAIN jobs :
                jobs'[j].job_id = jobs[j].job_id /\ jobs'[j].request = jobs[j].request
          /\ (cpu.kind = "start" /\ cpu.pc = "locked")
             => /\ cpu.job \notin DOMAIN jobs
                /\ DOMAIN jobs' = DOMAIN jobs \cup {cpu.job}
                /\ jobs'[cpu.job] = [job_id |-> cpu.job,
                                     request |-> Val(cpu.args).request,
                                     status |-> PENDING, result |-> None,
                                     error |-> None, task |-> None,
                                     started_at |-> None]
          /\ DOMAIN jobs' /= DOMAIN jobs => (cpu.kind = "start" /\ cpu.pc = "locked")]_vars
    /\ [](\A j \in DOMAIN jobs : jobs[j].job_id = j)
    /\ []((cpu.kind = "get" /\ cpu.pc = "returned" /\ cpu.job \in DOMAIN jobs)
          => /\ Val(cpu.ret).value /= None
             /\ Val(Val(cpu.ret).value).job_id = cpu.job)

\* C20 witness: with two jobs in the registry, the first one Failed and its
\* task done, get_job has returned the snapshot of the first.
C20_Witness ==
    /\ DOMAIN jobs = {1, 2}
    /\ jobs[1].status = FAILED
    /\ TaskDone(1)
    /\ cpu.kind = "get" /\ cpu.pc = "returned" /\ cpu.job = 1
    /\ cpu.ret = Some(Returned(SnapshotJob(jobs[1])))

\* C21: a step changes the status, result or error of a job only when it is
\* a step of that job's own task or the locked block of get_job for that
\* job's identifier; the locked block of get_job leaves the tasks of the
\* other jobs as they are, and get_job for a registered identifier returns a
\* snapshot whatever happened to the other jobs.
C21_FailureIsolation ==
    /\ [][\A j \in DOMAIN jobs :
            /\ SnapshotJob(jobs'[j]) /= SnapshotJob(jobs[j])
               => (cpu.job = j /\ cpu.kind \in {"task", "get", "start"})
            /\ (cpu.kind \in {"get", "start"} /\ cpu.job /= j)
               => (jobs'[j] = jobs[j] /\ tasks'[j] = tasks[j])]_vars
    /\ []((cpu.kind = "get" /\ cpu.pc = "returned" /\ cpu.job \in DOMAIN jobs)
          => cpu.ret = Some(Returned(SnapshotJob(jobs[cpu.job]))))

\* C21 witness: one job has Failed in the except block of line 359 and
\* get_job for the other job has returned it as Running.
C21_Witness ==
    \E j, k \in DOMAIN jobs :
        /\ j /= k
        /\ jobs[j].status = FAILED
        /\ tasks[j].outcome = "exception"
        /\ jobs[k].status = RUNNING
        /\ cpu.kind = "get" /\ cpu.pc = "returned" /\ cpu.job = k
        /\ Val(Val(cpu.ret).value).status = RUNNING

\* C22: whenever two jobs are both Running and suspended in a generation
\* call whose reply is due, with nothing running, the reply of either one
\* can arrive in the next step: neither call waits for the other.
C22_ConcurrentGeneration ==
    \A j, k \in DOMAIN jobs :
        ( /\ j /= k
          /\ cpu = Idle
          /\ tasks[j].pc = "gen" /\ tasks[k].pc = "gen"
          /\ jobs[j].status = RUNNING /\ jobs[k].status = RUNNING
          /\ CallReturns(j) /\ CallReturns(k) )
        => (ENABLED GenReturn(j)) /\ (ENABLED GenReturn(k))

\* C22 witness: the job submitted second has got a reply while the job
\* submitted first still waits in its first generation call, both Running.
C22_Witness ==
    /\ DOMAIN jobs = {1, 2}
    /\ jobs[1].status = RUNNING /\ jobs[2].status = RUNNING
    /\ tasks[1].pc = "gen" /\ tasks[1].calls = 1
    /\ tasks[2].pc = "gen" /\ tasks[2].calls = 2
    /\ Len(tasks[2].transcript) = 1

\* The texts of an expired per-call budget.
PerCallTimeoutMessages ==
    {SummaryTimedOutMessage}
    \cup {ReplyTimedOutMessage(role) : role \in {"Engineer", "Strategist", "Scientist"}}

\* C23: when the per-call budget expires on a call that honours
\* cancellation (a step that takes a slow client from its call to the
\* handlers without a reply), a per-call budget is configured, the exception
\* carries the text that names the waiting participant, or the summary
\* stage, no further call is made, and the task ends in the except block of
\* line 359; a job whose task ended that way is Failed with that text and
\* has no result, with or without an overall budget.
C23_PerCallTimeout ==
    /\ [][\A j \in DOMAIN jobs :
            ( /\ tasks[j].client = "slow"
              /\ tasks[j].pc \in {"gen", "summary"}
              /\ tasks'[j].pc \notin {"gen", "summary"}
              /\ tasks'[j].transcript = tasks[j].transcript
              /\ tasks'[j].summary = None
              /\ ~tasks[j].cancel /\ tasks[j].timer /= "fired" )
            => /\ generation_timeout_seconds /= None
               /\ tasks'[j].pc = "h_exception"
               /\ tasks'[j].exc =
                     Some(IF tasks[j].pc = "gen"
                          THEN ReplyTimedOutMessage(RoleAt(jobs[j].request, tasks[j].calls))
                          ELSE SummaryTimedOutMessage)
               /\ tasks'[j].calls = tasks[j].calls
               /\ tasks'[j].summaries = tasks[j].summaries]_vars
    /\ [](\A j \in DOMAIN jobs :
            ( /\ TaskDone(j)
              /\ tasks[j].exc /= None
              /\ Val(tasks[j].exc) \in PerCallTimeoutMessages )
            => /\ jobs[j].status = FAILED
               /\ jobs[j].error = tasks[j].exc
               /\ jobs[j].result = None
               /\ tasks[j].outcome = "exception")

\* C23 witness: without an overall budget a job is Failed with the text of
\* the summary stage, after a complete transcript, and made one summary call.
C23_Witness ==
    \E j \in DOMAIN jobs :
        /\ timeout_seconds = None
        /\ generation_timeout_seconds /= None
        /\ jobs[j].status = FAILED
        /\ jobs[j].error = Some(SummaryTimedOutMessage)
        /\ Len(tasks[j].transcript) = ExpectedMessages(jobs[j].request)
        /\ tasks[j].summaries = 1

\* C24: a job whose task ended with a failure of the summary call that is
\* not the expiry of the per-call budget, after a complete transcript, is
\* Failed with the generic text of the summary stage, which names no
\* participant, and has no result.
C24_SummaryFailureGeneric ==
    \A j \in DOMAIN jobs :
        ( /\ TaskDone(j)
          /\ tasks[j].outcome = "exception"
          /\ Len(tasks[j].transcript) = ExpectedMessages(jobs[j].request)
          /\ tasks[j].exc \notin {Some(m) : m \in PerCallTimeoutMessages} )
        => /\ jobs[j].status = FAILED
           /\ jobs[j].error = Some(SummaryFailedMessage)
           /\ Val(jobs[j].error).role = ""
           /\ jobs[j].result = None

\* C25: a task cancelled while the engine waits in a generation or summary
\* call that honours cancellation leaves the call only into the handler of
\* CancelledError: no SimulationError is raised, no reply is appended and no
\* further generation or summary call is made; a task that ended cancelled
\* carries no exception of the engine.
C25_CancellationPropagates ==
    /\ [][\A j \in DOMAIN jobs :
            ( /\ tasks[j].pc \in {"gen", "summary"}
              /\ tasks[j].cancel
              /\ HonoursCancel(tasks[j].client)
              /\ \/ tasks'[j].pc /= tasks[j].pc
                 \/ tasks'[j].calls /= tasks[j].calls
                 \/ tasks'[j].summaries /= tasks[j].summaries
                 \/ tasks'[j].transcript /= tasks[j].transcript )
            => /\ tasks'[j].pc = "h_cancelled"
               /\ tasks'[j].exc = None
               /\ tasks'[j].calls = tasks[j].calls
               /\ tasks'[j].summaries = tasks[j].summaries
               /\ tasks'[j].transcript = tasks[j].transcript]_vars
    /\ [](\A j \in DOMAIN jobs :
            (tasks[j].pc = "h_cancelled" \/ tasks[j].outcome = "cancelled")
            => tasks[j].exc = None)

\* C25 witness: with a per-call budget configured, a task cancelled while
\* the engine waited in the summary call is in the handler of CancelledError.
C25_Witness ==
    \E j \in DOMAIN jobs :
        /\ generation_timeout_seconds /= None
        /\ tasks[j].pc = "h_cancelled"
        /\ tasks[j].summaries = 1
        /\ tasks[j].exc = None
        /\ Len(tasks[j].transcript) = ExpectedMessages(jobs[j].request)

\* C26: in every state the start time of a job is set exactly when the job
\* is Running; the step that makes a job Running sets it to the time of the
\* loop, and every step that takes a job out of Running clears it.
C26_StartedIffRunning ==
    /\ [](\A j \in DOMAIN jobs :
            (jobs[j].started_at /= None) <=> (jobs[j].status = RUNNING))
    /\ [][\A j \in DOMAIN jobs :
            /\ (jobs[j].status /= RUNNING /\ jobs'[j].status = RUNNING)
               => jobs'[j].started_at = Some(LoopTime)
            /\ (jobs[j].status = RUNNING /\ jobs'[j].status /= RUNNING)
               => jobs'[j].started_at = None]_vars

\* C26 witness: one job is Running with its start time set, the other has
\* left Running through the timeout check of get_job while its task is
\* still unfinished, and has no start time.
C26_Witness ==
    \E j, k \in DOMAIN jobs :
        /\ jobs[j].status = RUNNING /\ jobs[j].started_at /= None
        /\ jobs[k].status = FAILED /\ jobs[k].started_at = None
        /\ jobs[k].task /= None /\ ~TaskDone(k)
        /\ jobs[k].error = Some(RuntimeExceededMessage(Val(timeout_seconds)))

\* C27: the locked block of get_job changes nothing of a task that has
\* finished; it requests a cancellation only of the task of the job it
\* looks up, when that task has not finished and the check fails the job in
\* the same step; and get_job for a job of the registry returns the snapshot
\* of the job, whatever the outcome of its task: no exception of the task
\* reaches the caller.
C27_GuardCancelSilent ==
    /\ [][(cpu.kind = "get" /\ cpu.pc = "locked")
          => \A j \in DOMAIN jobs :
                /\ TaskDone(j) => tasks'[j] = tasks[j]
                /\ tasks'[j] /= tasks[j]
                      => /\ j = cpu.job
                         /\ ~TaskDone(j)
                         /\ jobs[j].status = RUNNING
                         /\ jobs'[j].status = FAILED
                         /\ tasks'[j] = [tasks[j] EXCEPT !.cancel = TRUE]]_vars
    /\ []((cpu.kind = "get" /\ cpu.pc = "returned" /\ cpu.job \in DOMAIN jobs)
          => cpu.ret = Some(Returned(SnapshotJob(jobs[cpu.job]))))

\* C27 witness: a later get_job returns the Failed snapshot of a job whose
\* task the check cancelled and which has since ended in the handler of
\* CancelledError.
C27_Witness ==
    \E j \in DOMAIN jobs :
        /\ cpu.kind = "get" /\ cpu.pc = "returned" /\ cpu.job = j
        /\ TaskDone(j)
        /\ tasks[j].outcome = "cancelled"
        /\ timeout_seconds /= None
        /\ jobs[j].error = Some(RuntimeExceededMessage(Val(timeout_seconds)))
        /\ cpu.ret = Some(Returned(SnapshotJob(jobs[j])))
        /\ jobs[j].task = None

\* The links of a graph: source, target and relation of each edge.
Links(graph) ==
    {<<graph.edges[i].source, graph.edges[i].target, graph.edges[i].relation>> :
        i \in DOMAIN graph.edges}

\* The links a transcript of count messages stands for.
ExpectedLinks(count) ==
    {<<SessionNodeId, MessageNodeId(i), "HAS_MESSAGE">> : i \in 0..(count - 1)}
    \cup {<<MessageNodeId(i - 1), MessageNodeId(i), "NEXT">> : i \in 1..(count - 1)}
    \cup {<<SessionNodeId, KnowledgeNodeId, "YIELDED">>}
    \cup (IF count >= 1
          THEN {<<MessageNodeId(count - 1), KnowledgeNodeId, "CONTRIBUTED_TO">>}
          ELSE {})

\* graph is the projection of the transcript: the session node, one node per
\* message in the order of the transcript, the knowledge node with the
\* summary, and exactly the expected links, each once.
IsTranscriptProjection(graph, messages, summary) ==
    LET count == Len(messages)
    IN /\ Len(graph.nodes) = count + 2
       /\ graph.nodes[1].type = "SimulationSession"
       /\ graph.nodes[1].id = SessionNodeId
       /\ \A i \in 1..count :
             /\ graph.nodes[i + 1].type = "SimulationMessage"
             /\ graph.nodes[i + 1].id = MessageNodeId(i - 1)
             /\ graph.nodes[i + 1].label = messages[i].role
             /\ graph.nodes[i + 1].metadata.role = messages[i].role
             /\ graph.nodes[i + 1].metadata.content = messages[i].content
             /\ graph.nodes[i + 1].metadata.sequence = i - 1
       /\ graph.nodes[count + 2].type = "SimulationKnowledge"
       /\ graph.nodes[count + 2].id = KnowledgeNodeId
       /\ graph.nodes[count + 2].metadata.summary = summary
       /\ Links(graph) = ExpectedLinks(count)
       /\ Len(graph.edges) = Cardinality(ExpectedLinks(count))
       /\ Len(graph.edges) = count + (IF count >= 1 THEN count - 1 ELSE 0)
                               + 1 + (IF count >= 1 THEN 1 ELSE 0)

\* C28: the graph of the result of every Completed job is the projection of
\* the transcript and the summary of that result; and for a request of the
\* one-job runs the graph of an empty transcript has the session and the
\* knowledge node and the single link between them.
C28_GraphProjection ==
    /\ \A j \in DOMAIN jobs :
          (jobs[j].status = COMPLETED /\ jobs[j].result /= None)
          => IsTranscriptProjection(Val(jobs[j].result).graph,
                                    Val(jobs[j].result).messages,
                                    Val(jobs[j].result).summary)
    /\ \A request \in OneJobRequests :
          /\ IsTranscriptProjection(
                BuildSimulationGraph(request, <<>>, "Synthetic summary"),
                <<>>, "Synthetic summary")
          /\ Links(BuildSimulationGraph(request, <<>>, "Synthetic summary"))
                = {<<SessionNodeId, KnowledgeNodeId, "YIELDED">>}

\* C28 witness: a Completed job with a transcript of six messages, whose
\* graph has eight nodes and thirteen edges, the last one from the sixth
\* message to the knowledge node.
C28_Witness ==
    \E j \in DOMAIN jobs :
        /\ jobs[j].status = COMPLETED
        /\ jobs[j].result /= None
        /\ Len(Val(jobs[j].result).messages) = 6
        /\ Len(Val(jobs[j].result).graph.nodes) = 8
        /\ Len(Val(jobs[j].result).graph.edges) = 13
        /\ Val(jobs[j].result).graph.edges[13].source = MessageNodeId(5)
        /\ Val(jobs[j].result).graph.edges[13].relation = "CONTRIBUTED_TO"

\* C29: under the fair event loop, with every generation and summary call
\* ending, every job of the registry eventually reaches Completed or Failed.
C29_EventuallyTerminal ==
    \A j \in JobIds :
        (j \in DOMAIN jobs) ~> (j \in DOMAIN jobs /\ Terminal(jobs[j].status))

\* C30: once the timeout check of get_job has failed a job and requested the
\* cancellation of its task, which honours it, no step changes the status,
\* the error or the result of the job; the job state stays as it is until
\* the step that ends the task, which is the handler of CancelledError and
\* clears the task handle only.
C30_UnwindKeepsTimeoutError ==
    [][\A j \in DOMAIN jobs :
          ( /\ timeout_seconds /= None
            /\ jobs[j].status = FAILED
            /\ jobs[j].error = Some(RuntimeExceededMessage(Val(timeout_seconds)))
            /\ jobs[j].task /= None
            /\ ~TaskDone(j)
            /\ HonoursCancel(tasks[j].client) )
          => IF tasks'[j].pc = "done"
             THEN /\ tasks[j].pc = "h_cancelled"
                  /\ tasks'[j].outcome = "cancelled"
                  /\ jobs'[j] = [jobs[j] EXCEPT !.task = None]
             ELSE jobs'[j] = jobs[j]]_vars

\* C30 witness: the task of a job the timeout check failed has ended in the
\* handler of CancelledError after a cancellation in its generation call;
\* the job is Failed with the budget message and its task handle is cleared.
C30_Witness ==
    \E j \in DOMAIN jobs :
        /\ TaskDone(j)
        /\ tasks[j].outcome = "cancelled"
        /\ HonoursCancel(tasks[j].client)
        /\ tasks[j].summaries = 0
        /\ timeout_seconds /= None
        /\ jobs[j].status = FAILED
        /\ jobs[j].error = Some(RuntimeExceededMessage(Val(timeout_seconds)))
        /\ jobs[j].error /= Some(CancelledMessage)
        /\ jobs[j].task = None
        /\ shutdown.pc = "idle"

\* C31: the step of the timeout check of get_job that fails a Running job
\* and the step of the TimeoutError handler of the task record the same
\* thing, Failed with the budget message of the configured budget; and once
\* a job is Failed with that message, with its task finished or honouring
\* cancellation, no later step of the other mechanism or of the unwinding
\* task changes the snapshot callers get.
C31_SameTimeoutTransition ==
    [][\A j \in DOMAIN jobs :
          /\ ( /\ jobs[j].status = RUNNING
               /\ jobs'[j].status = FAILED
               /\ \/ cpu.kind = "get" /\ cpu.pc = "locked"
                  \/ tasks[j].pc = "h_timeout" )
             => /\ timeout_seconds /= None
                /\ jobs'[j].error = Some(RuntimeExceededMessage(Val(timeout_seconds)))
                /\ jobs'[j].result = None
                /\ jobs'[j].started_at = None
          /\ tasks[j].pc = "h_timeout" /\ tasks'[j].pc = "done"
             => /\ jobs[j].status = RUNNING
                /\ jobs'[j].status = FAILED
          /\ ( /\ timeout_seconds /= None
               /\ jobs[j].status = FAILED
               /\ jobs[j].error = Some(RuntimeExceededMessage(Val(timeout_seconds)))
               /\ TaskDone(j) \/ HonoursCancel(tasks[j].client) )
             => SnapshotJob(jobs'[j]) = SnapshotJob(jobs[j])]_vars

\* C31 witness: both mechanisms fired for one job: the deadline of wait_for
\* fired while the call was pending, a get_job then failed the job and
\* cancelled the task, and the task has ended; the job is Failed with the
\* budget message.
C31_Witness ==
    \E j \in DOMAIN jobs :
        /\ TaskDone(j)
        /\ tasks[j].timer = "fired"
        /\ tasks[j].outcome = "cancelled"
        /\ timeout_seconds /= None
        /\ jobs[j].status = FAILED
        /\ jobs[j].error = Some(RuntimeExceededMessage(Val(timeout_seconds)))

\* C32: the locked block of get_job on a Running job whose elapsed time is
\* at most the budget returns the Running snapshot of the job and changes
\* no job and no task.
C32_WithinBudgetUntouched ==
    [][\A j \in DOMAIN jobs :
          ( /\ cpu.kind = "get" /\ cpu.pc = "locked" /\ cpu.job = j
            /\ jobs[j].status = RUNNING
            /\ timeout_seconds /= None
            /\ jobs[j].started_at /= None
            /\ Elapsed(jobs[j]) <= Val(timeout_seconds) )
          => /\ cpu'.pc = "returned"
             /\ cpu'.ret = Some(Returned(SnapshotJob(jobs[j])))
             /\ Val(Val(cpu'.ret).value).status = RUNNING
             /\ jobs' = jobs
             /\ tasks' = tasks]_vars

\* C32 witness: get_job has returned Running for a job whose elapsed time
\* equals the budget, and the task has no cancellation pending.
C32_Witness ==
    \E j \in DOMAIN jobs :
        /\ cpu.kind = "get" /\ cpu.pc = "returned" /\ cpu.job = j
        /\ cpu.ret = Some(Returned(SnapshotJob(jobs[j])))
        /\ jobs[j].status = RUNNING
        /\ timeout_seconds /= None
        /\ Elapsed(jobs[j]) = Val(timeout_seconds)
        /\ ~tasks[j].cancel

\* C33: the locked block of get_job on a job that is Pending, Completed or
\* Failed returns the snapshot of the job and changes no job and no task; no
\* step of get_job takes a job from Pending to Failed.
C33_GuardOnlyOnRunning ==
    [][/\ \A j \in DOMAIN jobs :
            ( /\ cpu.kind = "get" /\ cpu.pc = "locked" /\ cpu.job = j
              /\ jobs[j].status /= RUNNING )
            => /\ cpu'.pc = "returned"
               /\ cpu'.ret = Some(Returned(SnapshotJob(jobs[j])))
               /\ jobs' = jobs
               /\ tasks' = tasks
       /\ \A j \in DOMAIN jobs :
            (jobs[j].status = PENDING /\ cpu.kind \in {"get", "start"})
            => jobs'[j].status = PENDING]_vars

\* C33 witness: with a budget configured and another job already failed for
\* exceeding it, get_job has returned Pending for a job whose task was
\* cancelled before its first step and is still bound.
C33_Witness ==
    \E j, k \in DOMAIN jobs :
        /\ cpu.kind = "get" /\ cpu.pc = "returned" /\ cpu.job = j
        /\ cpu.ret = Some(Returned(SnapshotJob(jobs[j])))
        /\ jobs[j].status = PENDING
        /\ jobs[j].task /= None
        /\ tasks[j].outcome = "cancelled-unstarted"
        /\ timeout_seconds /= None
        /\ jobs[k].status = FAILED
        /\ jobs[k].error = Some(RuntimeExceededMessage(Val(timeout_seconds)))

\* The tasks shutdown read from the registry all honour cancellation.
ListedTasksHonourCancel ==
    \A k \in 1..Len(shutdown.tasks) : HonoursCancel(tasks[shutdown.tasks[k]].client)

\* C34: under the fair event loop a shutdown that waits for a task returns
\* in the end when the tasks it read from the registry honour cancellation;
\* and each step of its loop requests the cancellation of one task at most,
\* the one it then waits for: the tasks it passes over are done and are not
\* touched, and the tasks further down the list are not touched either.
C34_ShutdownSequential ==
    /\ (shutdown.pc = "awaiting" /\ ListedTasksHonourCancel)
          ~> (shutdown.pc = "returned")
    /\ [][(shutdown' /= shutdown /\ shutdown.pc \in {"locked", "awaiting"})
          => LET list == shutdown'.tasks
                 from == IF shutdown.pc = "locked" THEN 1 ELSE shutdown.i + 1
             IN /\ \A k \in from..(shutdown'.i - 1) :
                      /\ TaskDone(list[k])
                      /\ tasks'[list[k]] = tasks[list[k]]
                      /\ list[k] \notin shutdown'.cancelled
                /\ shutdown'.i <= Len(list)
                      => /\ shutdown'.pc = "awaiting"
                         /\ ~TaskDone(list[shutdown'.i])
                         /\ tasks'[list[shutdown'.i]] =
                               [tasks[list[shutdown'.i]] EXCEPT !.cancel = TRUE]
                /\ shutdown'.i > Len(list) => shutdown'.pc = "returned"
                /\ \A k \in (shutdown'.i + 1)..Len(list) :
                      tasks'[list[k]] = tasks[list[k]]
                /\ jobs' = jobs]_vars

\* C34 witness: shutdown has returned after reading two tasks from the
\* registry; it cancelled and waited for the first, the second reached
\* Completed meanwhile and was passed over.
C34_Witness ==
    /\ shutdown.pc = "returned"
    /\ Len(shutdown.tasks) = 2
    /\ shutdown.cancelled = {shutdown.tasks[1]}
    /\ tasks[shutdown.tasks[1]].outcome = "cancelled"
    /\ jobs[shutdown.tasks[2]].status = COMPLETED
    /\ tasks[shutdown.tasks[2]].outcome = "completed"
    /\ ListedTasksHonourCancel

\* The tasks of the list shutdown read from the registry.
ListedTasks == {shutdown.tasks[k] : k \in 1..Len(shutdown.tasks)}

\* C35: the list of shutdown is made of the tasks bound in the registry at
\* the step that reads it under the lock and does not change afterwards;
\* shutdown requests the cancellation of tasks of that list only, and no
\* step of shutdown touches the task of a job that is not in the list.
C35_ShutdownSnapshot ==
    /\ [](shutdown.cancelled \subseteq ListedTasks)
    /\ [][/\ (shutdown.pc = "locked" /\ shutdown'.pc /= "locked")
               => \A j \in JobIds :
                     ( (\E k \in 1..Len(shutdown'.tasks) : shutdown'.tasks[k] = j)
                       <=> (j \in DOMAIN jobs /\ jobs[j].task /= None) )
          /\ shutdown.pc \in {"awaiting", "returned"}
               => shutdown'.tasks = shutdown.tasks
          /\ shutdown' /= shutdown
               => \A j \in JobIds :
                     ( (\A k \in 1..Len(shutdown'.tasks) : shutdown'.tasks[k] /= j)
                       => tasks'[j] = tasks[j] )]_vars

\* C35 witness: while shutdown waits for the task it cancelled, a second job
\* has been submitted and is Running in its second generation call; its
\* task is not in the list of shutdown and has no cancellation pending.
C35_Witness ==
    \E j \in DOMAIN jobs :
        /\ shutdown.pc = "awaiting"
        /\ ~TaskDone(shutdown.tasks[shutdown.i])
        /\ j \notin ListedTasks
        /\ jobs[j].status = RUNNING
        /\ jobs[j].task /= None
        /\ tasks[j].pc = "gen"
        /\ tasks[j].calls = 2
        /\ ~tasks[j].cancel

\* The texts of a job failed for its elapsed time.
ElapsedTimeFailures ==
    {RuntimeExceededMessage(t) : t \in -1..MaxTimeout}
    \cup {ErrorText("Simulation exceeded the maximum runtime.", "", 0)}

\* C36: the constructor stores an overall budget of None, 0 or a negative
\* number as None, and a stored budget is positive; on a coordinator without
\* a stored budget no deadline is armed for a task, no task ends in the
\* handler of TimeoutError, no job carries a text of an exceeded runtime, and
\* only shutdown requests cancellations.
C36_NonPositiveBudgetDisabled ==
    /\ \A t \in TimeoutArgs :
          (t = None \/ Val(t) <= 0) => NormaliseBudget(t) = None
    /\ timeout_seconds /= None => Val(timeout_seconds) > 0
    /\ timeout_seconds = None
         => \A j \in DOMAIN jobs :
               /\ tasks[j].timer = "none"
               /\ tasks[j].outcome /= "timeout"
               /\ tasks[j].pc /= "h_timeout"
               /\ jobs[j].error = None \/ Val(jobs[j].error) \notin ElapsedTimeFailures
               /\ tasks[j].cancel => j \in shutdown.cancelled

\* C36 witness: on a coordinator without a stored budget a job whose slow
\* client is in the summary call has been Running for longer than any
\* budget of the model, and a get_job has just returned it as Running.
C36_Witness ==
    \E j \in DOMAIN jobs :
        /\ timeout_seconds = None
        /\ tasks[j].client = "slow"
        /\ tasks[j].pc = "summary"
        /\ jobs[j].status = RUNNING
        /\ Elapsed(jobs[j]) > MaxTimeout
        /\ cpu.kind = "get" /\ cpu.pc = "returned" /\ cpu.job = j
        /\ Val(Val(cpu.ret).value).status = RUNNING

\* C37: a job is bound to its own task only, and a task is created for a
\* job once, in a step of start_simulation; a Completed job has no task
\* handle; a Failed job has one only while the task the timeout check
\* cancelled has not finished; and a job whose task has finished has no
\* task handle.
C37_TaskHandleLifecycle ==
    /\ [](\A j \in DOMAIN jobs :
            /\ jobs[j].task /= None => Val(jobs[j].task) = j
            /\ jobs[j].status = COMPLETED => jobs[j].task = None
            /\ (jobs[j].status = FAILED /\ jobs[j].task /= None)
                  => /\ ~TaskDone(j)
                     /\ timeout_seconds /= None
                     /\ jobs[j].error = Some(RuntimeExceededMessage(Val(timeout_seconds)))
            /\ TaskDone(j) => jobs[j].task = None)
    /\ [][\A j \in JobIds :
            (tasks[j].pc /= "created" /\ tasks'[j].pc = "created")
            => /\ tasks[j].pc = "absent"
               /\ cpu.kind = "start"
               /\ jobs[j].task = None
               /\ jobs'[j].task = Some(j)]_vars

\* C38: a step of get_job in which the timeout check requests the
\* cancellation of the task of a job finds the job Running and leaves it
\* Failed, so that the check of the next call returns early; and a job that
\* is Completed or Failed is never Running again.  The check therefore
\* requests the cancellation of a task once at most.
C38_GuardCancelsOnce ==
    [][\A j \in DOMAIN jobs :
          /\ ( /\ cpu.kind = "get" /\ cpu.pc = "locked" /\ cpu.job = j
               /\ GuardCancels(jobs[j]) )
             => /\ jobs[j].status = RUNNING
                /\ jobs'[j].status = FAILED
                /\ tasks'[j].cancel
                /\ ~TimeoutApplies(jobs'[j])
                /\ ~(GuardCancels(jobs[j]))'
          /\ Terminal(jobs[j].status) => jobs'[j].status /= RUNNING
          /\ Terminal(jobs[j].status) => ~(GuardCancels(jobs[j]))']_vars

\* C38 witness: a later get_job has returned for a job the timeout check
\* had failed: the task, which ignored the cancellation, is still in its
\* generation call and has no new cancellation pending.
C38_Witness ==
    \E j \in DOMAIN jobs :
        /\ cpu.kind = "get" /\ cpu.pc = "returned" /\ cpu.job = j
        /\ timeout_seconds /= None
        /\ jobs[j].status = FAILED
        /\ jobs[j].error = Some(RuntimeExceededMessage(Val(timeout_seconds)))
        /\ jobs[j].task /= None
        /\ tasks[j].pc = "gen"
        /\ ~HonoursCancel(tasks[j].client)
        /\ ~tasks[j].cancel

====
